---- MODULE Spec2Model ----
(***************************************************************************)
(* Model of the document assistant agent (german36-del/                    *)
(* document_assistant_agent): document preparation (download, page         *)
(* trimming, metadata manifest, text extraction, index build), the index   *)
(* loader, the entity extraction / aggregation pass and the construction   *)
(* of LocalLLMAgent.                                                       *)
(*                                                                         *)
(* The module holds several specifications over one set of variables:      *)
(*   SpecTrim    keep_relevant_pages_in_pdf as a function of its inputs    *)
(*   SpecPrep    create_vector_db: download, trim, manifest, list, index   *)
(*   SpecExtract extract_entities_in_sql_db: extraction and aggregation    *)
(*   SpecLoad    load_faiss_index and the similarity query on its result   *)
(*   SpecAgent   LocalLLMAgent.__init__, call by call, over several runs   *)
(* A specification leaves the variables of the other parts at their idle   *)
(* values.                                                                 *)
(***************************************************************************)
EXTENDS Integers, Sequences, FiniteSets

\* ------------------------------------------------------------------------
\* Bounds of the model
\* ------------------------------------------------------------------------
\* longest manifest (number of doc_info entries of the company)
MaxDocs == 2
\* largest page count of a source document
MaxPages == 2
\* longest explicit page subset drawn for keep_relevant_pages_in_pdf
MaxSubset == 2
\* most chunks of a persisted index
MaxChunks == 3
\* most constructions of LocalLLMAgent in a row
MaxRuns == 2
\* LocalLLMAgent constructions under way at the same time
MaxInstances == 2
\* command-line arguments after the program name
MaxArgs == 2

\* ------------------------------------------------------------------------
\* Values
\* ------------------------------------------------------------------------
Companies == {"Amazon"}
Years == {"2021", "2022"}
\* the folder create_vector_db reads the prepared documents from
ListedCompany == "Amazon"

\* A file on disk: a PDF is the sequence of its pages, a page is identified
\* by the document it was published in and its position there.
NoFile == [exists |-> FALSE, pages |-> <<>>]
PdfFile(ps) == [exists |-> TRUE, pages |-> ps]
SourcePage(url, n) == [doc |-> url, no |-> n]
SourcePdf(url, n) == PdfFile([k \in 1..n |-> SourcePage(url, k)])

UrlOf(year) == "https://reports/" \o year
FileName(year) == "annual_report_" \o year \o ".pdf"
PathOf(dir, company, year) == dir \o "/" \o company \o "/" \o FileName(year)

\* sequences over S of length lo..hi
SeqsOf(S, lo, hi) == UNION {[1..n -> S] : n \in lo..hi}

\* ------------------------------------------------------------------------
\* Python list subscript: 0-based, a negative index counts from the end,
\* anything else raises IndexError (pypdf's page list follows it).
\* ------------------------------------------------------------------------
PySubscript(s, idx) ==
  LET n == Len(s)
      j == IF idx < 0 THEN idx + n ELSE idx
  IN IF j < 0 \/ j >= n
       THEN [ok |-> FALSE, value |-> SourcePage("", 0)]
       ELSE [ok |-> TRUE, value |-> s[j + 1]]

\* the subscript keep_relevant_pages_in_pdf computes from a page number,
\* as a plausible slip would have it (no conversion to 0-based)
PageIndexNoShift(page_num) == page_num

\* input_pdf.pages[page_num - 1]
PageIndex(page_num) == page_num - 1

RECURSIVE AddPages(_, _, _)
\* the loop of keep_relevant_pages_in_pdf: add_page for each page number in
\* turn; the first failing subscript raises and ends the loop
AddPages(src, pages, acc) ==
  IF pages = <<>>
    THEN [error |-> "none", pages |-> acc]
    ELSE LET p == PySubscript(src, PageIndex(Head(pages)))
         IN IF p.ok
              THEN AddPages(src, Tail(pages), Append(acc, p.value))
              ELSE [error |-> "IndexError", pages |-> <<>>]

\* keep_relevant_pages_in_pdf(input_pdf_path, output_pdf_path, pages):
\* PdfReader on a missing path raises FileNotFoundError; the output is
\* opened and written only after the loop has finished.
KeepRelevantPagesInPdf(input, pages) ==
  IF ~input.exists
    THEN [error |-> "FileNotFoundError", pages |-> <<>>]
    ELSE AddPages(input.pages, pages, <<>>)

\* ------------------------------------------------------------------------
\* State
\* ------------------------------------------------------------------------
VARIABLES
  \* keep_relevant_pages_in_pdf called on its own
  trim_input,       \* the file at input_pdf_path
  trim_pages,       \* the pages argument
  trim_output,      \* the file at output_pdf_path
  trim_pc,          \* "call" | "returned" | the exception raised
  \* create_vector_db
  docs_mapping,     \* the manifest: doc_info entries in iteration order
  raw,              \* files under <download folder>/<company>/
  prepared,         \* files under <download folder>/prepared/<company>/
  metadata,         \* the list keep_relevant_pages_in_pdfs builds
  metadata_file,    \* prepared/metadata.json
  prep_pc,          \* position in create_vector_db
  prep_i,           \* index of the doc_info being handled
  prep_error,       \* the uncaught exception, "none" when there is none
  all_results,      \* process_all_pdfs: file name and pages, listing order
  faiss_chunks,     \* the chunks saved by create_faiss_index
  main_results,     \* main.py: all_results of the image-based extractor
  requests,         \* the requests.get calls made: url and status of each
  \* extract_entities_in_sql_db
  json_data,        \* the documents iterated: file names in dict order
  full_metadata,    \* load_json(prepared/metadata.json)
  ext_pc,           \* position in extract_entities_in_sql_db
  ext_idx,          \* idx of the extraction loop, counted from 1
  ext_e,            \* position in entity_list of the extraction loop
  extracted_entities, \* the list the extraction loop fills
  agg_i,            \* position of the aggregation loop in extracted_entities
  aggregated_data,  \* the list the aggregation loop fills
  entity_data,      \* the table entity_data of the store file
  table_before,     \* entity_data as the pass found it
  ext_out,          \* what the pass logged or printed, in order
  ext_error,        \* the uncaught exception, "none" when there is none
  \* load_faiss_index and the similarity query
  disk_index,       \* what is persisted at index_path
  vector_store,     \* the object load_faiss_index returned
  load_pc,          \* "call" | "loaded" | "searched" | "crashed"
  load_error,       \* the uncaught exception, "none" when there is none
  search_result,    \* what semantic_search_tool got from similarity_search
  load_out,         \* what load_faiss_index logged or printed, in order
  \* LocalLLMAgent.__init__
  run,              \* number of the construction under way
  agent_pc,         \* the next call of __init__ / create_vector_db
  raw_state,        \* per manifest year: the raw file ("missing", ...)
  index_file,       \* the persisted index: exists, built_by (run, 0 = earlier)
  store_file,       \* the store file: exists, built_by (run, 0 = earlier)
  index_at_start,   \* index_file when the construction started
  store_at_start,   \* store_file when the construction started
  agent_store,      \* self.vector_store: the build that was loaded, -1 = unset
  agent_db,         \* self.db: the store build that was opened, -1 = unset
  agent_log,        \* the calls of this construction, in order
  agent_error,      \* the uncaught exception, "none" when there is none
  \* LocalLLMAgent.__init__ of several processes over the same paths
  inst_pc,          \* per instance: the next call of its __init__
  shared_index,     \* the index at faiss_index_path: exists, built_by, complete
  shared_store,     \* the store at db_path: exists, built_by, complete
  inst_store,       \* per instance: the index its self.vector_store was read from
  inst_db,          \* per instance: the store its self.db was opened on
  \* entrypoint
  cli_args,         \* sys.argv[1:], each argument as its pieces around "="
  default_cfg,      \* DEFAULT_CFG, the keys of default.yaml
  cfg_pc,           \* position in entrypoint
  cfg_i,            \* position of parse_custom_args in cli_args
  custom_args,      \* the dict parse_custom_args fills
  config,           \* {**DEFAULT_CFG, **custom_args}
  agent_cfg,        \* self.cfg of the LocalLLMAgent constructed
  cfg_out,          \* what entrypoint logged, in order
  cfg_error,        \* the uncaught exception, "none" when there is none
  \* download_pdf_files called again over the same base directory
  dl_run,           \* the number of the call in progress, 0 when there is none
  dl_files,         \* the base directory as each finished call left it
  dl_requests       \* the number of requests made when each call finished

trimVars == <<trim_input, trim_pages, trim_output, trim_pc>>
prepVars == <<docs_mapping, raw, prepared, metadata, metadata_file,
              prep_pc, prep_i, prep_error, all_results, faiss_chunks,
              main_results, requests>>
extVars == <<json_data, full_metadata, ext_pc, ext_idx, ext_e,
             extracted_entities, agg_i, aggregated_data, entity_data,
             table_before, ext_out, ext_error>>
loadVars == <<disk_index, vector_store, load_pc, load_error, search_result,
             load_out>>
agentVars == <<run, agent_pc, raw_state, index_file, store_file,
               index_at_start, store_at_start, agent_store, agent_db,
               agent_log, agent_error>>
concVars == <<inst_pc, shared_index, shared_store, inst_store, inst_db>>
cfgVars == <<cli_args, default_cfg, cfg_pc, cfg_i, custom_args, config,
             agent_cfg, cfg_out, cfg_error>>
dlVars == <<dl_run, dl_files, dl_requests>>
vars == <<trimVars, prepVars, extVars, loadVars, agentVars, concVars,
          cfgVars, dlVars>>
\* what each part leaves alone
nonTrimVars == <<prepVars, extVars, loadVars, agentVars,
                concVars, cfgVars, dlVars>>
nonPrepVars == <<trimVars, extVars, loadVars, agentVars,
                concVars, cfgVars, dlVars>>
nonExtVars == <<trimVars, prepVars, loadVars, agentVars,
                concVars, cfgVars, dlVars>>
nonLoadVars == <<trimVars, prepVars, extVars, agentVars,
                concVars, cfgVars, dlVars>>
nonAgentVars == <<trimVars, prepVars, extVars, loadVars,
                concVars, cfgVars, dlVars>>
nonConcVars == <<trimVars, prepVars, extVars, loadVars, agentVars,
                 cfgVars, dlVars>>
nonCfgVars == <<trimVars, prepVars, extVars, loadVars, agentVars, concVars,
                dlVars>>
nonDlVars == <<trimVars, extVars, loadVars, agentVars, concVars, cfgVars>>

\* ------------------------------------------------------------------------
\* keep_relevant_pages_in_pdf on its own (SpecTrim)
\* ------------------------------------------------------------------------
PageNumbers == (0 - 1)..(MaxPages + 1)
PageLists == SeqsOf(PageNumbers, 1, MaxSubset)

TrimIdle ==
  /\ trim_input = NoFile
  /\ trim_pages = <<>>
  /\ trim_output = NoFile
  /\ trim_pc = "idle"

TrimInit ==
  /\ \E n \in 1..MaxPages : trim_input = SourcePdf(UrlOf("2021"), n)
  /\ trim_pages \in PageLists
  /\ trim_output = NoFile
  /\ trim_pc = "call"

TrimCall ==
  /\ trim_pc = "call"
  /\ LET r == KeepRelevantPagesInPdf(trim_input, trim_pages)
     IN IF r.error = "none"
          THEN /\ trim_output' = PdfFile(r.pages)
               /\ trim_pc' = "returned"
          ELSE /\ trim_output' = trim_output
               /\ trim_pc' = r.error
  /\ UNCHANGED <<trim_input, trim_pages, nonTrimVars>>

\* ------------------------------------------------------------------------
\* create_vector_db (SpecPrep): download_pdf_files, then
\* keep_relevant_pages_in_pdfs, then process_all_pdfs, prepare_text_chunks
\* and create_faiss_index
\* ------------------------------------------------------------------------
Keys == Companies \X Years

\* page subsets a manifest entry may carry ("pages" present)
ManifestPageLists == {<<>>, <<1>>, <<2, 1>>, <<0>>, <<MaxPages + 1>>}

\* a doc_info with a source URL; has_pages tells whether the "pages" key
\* is present
DocInfos ==
  [company : Companies, doc_url : {UrlOf(y) : y \in Years}, year : Years,
   has_pages : {TRUE}, pages : ManifestPageLists]
  \cup
  [company : Companies, doc_url : {UrlOf(y) : y \in Years}, year : Years,
   has_pages : {FALSE}, pages : {<<>>}]

\* the trailing entry of docs_mapping: {"doc_url": "", "year": ""}
EmptyDocInfos ==
  [company : Companies, doc_url : {""}, year : {""},
   has_pages : {FALSE}, pages : {<<>>}]

Manifests ==
  SeqsOf({d \in DocInfos : d.doc_url = UrlOf(d.year)} \cup EmptyDocInfos,
         1, MaxDocs)

\* doc_info.get("pages", [])
PagesOf(doc_info) == IF doc_info.has_pages THEN doc_info.pages ELSE <<>>

PrepIdle ==
  /\ docs_mapping = <<>>
  /\ raw = [k \in Keys |-> NoFile]
  /\ prepared = [k \in Keys |-> NoFile]
  /\ metadata = <<>>
  /\ metadata_file = [exists |-> FALSE, entries |-> <<>>]
  /\ prep_pc = "idle"
  /\ prep_i = 0
  /\ prep_error = "none"
  /\ all_results = <<>>
  /\ faiss_chunks = <<>>
  /\ main_results = <<>>
  /\ requests = <<>>

PrepInit ==
  /\ docs_mapping \in Manifests
  /\ raw = [k \in Keys |-> NoFile]
  /\ prepared = [k \in Keys |-> NoFile]
  /\ metadata = <<>>
  /\ metadata_file = [exists |-> FALSE, entries |-> <<>>]
  /\ prep_pc = "download"
  /\ prep_i = 1
  /\ prep_error = "none"
  /\ all_results = <<>>
  /\ faiss_chunks = <<>>
  /\ main_results = <<>>
  /\ requests = <<>>

\* response.status_code: 200, or one of the statuses of a failed download
StatusOk == 200
FailureStatuses == {404}
Response(url, status) == [url |-> url, status |-> status]

CurDoc == docs_mapping[prep_i]
CurKey == <<CurDoc.company, CurDoc.year>>

InDownload == prep_pc = "download" /\ prep_i <= Len(docs_mapping)
InKeep == prep_pc = "keep" /\ prep_i <= Len(docs_mapping)

\* download_pdf_files: "if not doc_url: continue"
DownloadSkipEmptyUrl ==
  /\ InDownload
  /\ CurDoc.doc_url = ""
  /\ prep_i' = prep_i + 1
  /\ UNCHANGED <<docs_mapping, raw, prepared, metadata, metadata_file,
                 prep_pc, prep_error, all_results, faiss_chunks, main_results,
                 requests, nonPrepVars>>

\* download_pdf_files with the existence check left out: the document is
\* requested and written again
DownloadOverwrite ==
  /\ InDownload
  /\ CurDoc.doc_url # ""
  /\ raw[CurKey].exists
  /\ \E n \in 1..MaxPages :
       raw' = [raw EXCEPT ![CurKey] = SourcePdf(CurDoc.doc_url, n)]
  /\ requests' = Append(requests, Response(CurDoc.doc_url, StatusOk))
  /\ prep_i' = prep_i + 1
  /\ UNCHANGED <<docs_mapping, prepared, metadata, metadata_file,
                 prep_pc, prep_error, all_results, faiss_chunks, main_results,
                 nonPrepVars>>

\* download_pdf_files: the target file exists, no request is made
DownloadAlreadyExists ==
  /\ InDownload
  /\ CurDoc.doc_url # ""
  /\ raw[CurKey].exists
  /\ prep_i' = prep_i + 1
  /\ UNCHANGED <<docs_mapping, raw, prepared, metadata, metadata_file,
                 prep_pc, prep_error, all_results, faiss_chunks, main_results,
                 requests, nonPrepVars>>

\* download_pdf_files: status 200, the body is written to the target file
DownloadOk ==
  /\ InDownload
  /\ CurDoc.doc_url # ""
  /\ ~raw[CurKey].exists
  /\ \E n \in 1..MaxPages :
       raw' = [raw EXCEPT ![CurKey] = SourcePdf(CurDoc.doc_url, n)]
  /\ requests' = Append(requests, Response(CurDoc.doc_url, StatusOk))
  /\ prep_i' = prep_i + 1
  /\ UNCHANGED <<docs_mapping, prepared, metadata, metadata_file,
                 prep_pc, prep_error, all_results, faiss_chunks, main_results,
                 nonPrepVars>>

\* download_pdf_files: any other status, the failure is printed and no
\* file is written
DownloadFailed ==
  /\ InDownload
  /\ CurDoc.doc_url # ""
  /\ ~raw[CurKey].exists
  /\ \E status \in FailureStatuses :
       requests' = Append(requests, Response(CurDoc.doc_url, status))
  /\ prep_i' = prep_i + 1
  /\ UNCHANGED <<docs_mapping, raw, prepared, metadata, metadata_file,
                 prep_pc, prep_error, all_results, faiss_chunks, main_results,
                 nonPrepVars>>

\* download_pdf_files returns, keep_relevant_pages_in_pdfs starts with an
\* empty metadata list
DownloadReturn ==
  /\ prep_pc = "download"
  /\ prep_i > Len(docs_mapping)
  /\ prep_pc' = "keep"
  /\ prep_i' = 1
  /\ metadata' = <<>>
  /\ UNCHANGED <<docs_mapping, raw, prepared, metadata_file,
                 prep_error, all_results, faiss_chunks, main_results,
                 requests, nonPrepVars>>

\* current_metadata as it would be with "pages_kept" set before the
\* "if not pages" branch
BaseMetadataPagesKeptFirst(doc_info) ==
  [company |-> doc_info.company,
   year |-> doc_info.year,
   doc_url |-> doc_info.doc_url,
   local_pdf_path |-> PathOf("prepared", doc_info.company, doc_info.year),
   pages_kept |-> doc_info.pages]

\* current_metadata before "pages_kept" is set
BaseMetadata(doc_info) ==
  [company |-> doc_info.company,
   year |-> doc_info.year,
   doc_url |-> doc_info.doc_url,
   local_pdf_path |-> PathOf("prepared", doc_info.company, doc_info.year)]

\* current_metadata as it would be with the "pages_kept" assignment left out
WithPagesKeptLeftOut(m, pages) == m

\* current_metadata["pages_kept"] = relevant_pages
WithPagesKept(m, pages) ==
  [f \in DOMAIN m \cup {"pages_kept"} |->
     IF f = "pages_kept" THEN pages ELSE m[f]]

\* keep_relevant_pages_in_pdfs: "if not doc_url: continue"
KeepSkipEmptyUrl ==
  /\ InKeep
  /\ CurDoc.doc_url = ""
  /\ prep_i' = prep_i + 1
  /\ UNCHANGED <<docs_mapping, raw, prepared, metadata, metadata_file,
                 prep_pc, prep_error, all_results, faiss_chunks, main_results,
                 requests, nonPrepVars>>

\* keep_relevant_pages_in_pdfs: "if not pages": shutil.copyfile of the raw
\* file, which raises FileNotFoundError when the raw file is missing
KeepCopyFull ==
  /\ InKeep
  /\ CurDoc.doc_url # ""
  /\ PagesOf(CurDoc) = <<>>
  /\ IF raw[CurKey].exists
       THEN /\ prepared' = [prepared EXCEPT ![CurKey] = raw[CurKey]]
            /\ metadata' = Append(metadata, BaseMetadata(CurDoc))
            /\ prep_i' = prep_i + 1
            /\ UNCHANGED <<prep_pc, prep_error>>
       ELSE /\ prep_pc' = "crashed"
            /\ prep_error' = "FileNotFoundError"
            /\ UNCHANGED <<prepared, metadata, prep_i>>
  /\ UNCHANGED <<docs_mapping, raw, metadata_file, all_results,
                 faiss_chunks, main_results,
                 requests, nonPrepVars>>

\* keep_relevant_pages_in_pdfs: an explicit page subset, handed to
\* keep_relevant_pages_in_pdf; an exception of the call is not caught
KeepTrim ==
  /\ InKeep
  /\ CurDoc.doc_url # ""
  /\ PagesOf(CurDoc) # <<>>
  /\ LET r == KeepRelevantPagesInPdf(raw[CurKey], CurDoc.pages)
     IN IF r.error = "none"
          THEN /\ prepared' = [prepared EXCEPT ![CurKey] = PdfFile(r.pages)]
               /\ metadata' =
                    Append(metadata,
                           WithPagesKept(BaseMetadata(CurDoc), CurDoc.pages))
               /\ prep_i' = prep_i + 1
               /\ UNCHANGED <<prep_pc, prep_error>>
          ELSE /\ prep_pc' = "crashed"
               /\ prep_error' = r.error
               /\ UNCHANGED <<prepared, metadata, prep_i>>
  /\ UNCHANGED <<docs_mapping, raw, metadata_file, all_results,
                 faiss_chunks, main_results,
                 requests, nonPrepVars>>

\* keep_relevant_pages_in_pdfs: save_json(metadata, .../metadata.json)
SaveMetadata ==
  /\ prep_pc = "keep"
  /\ prep_i > Len(docs_mapping)
  /\ metadata_file' = [exists |-> TRUE, entries |-> metadata]
  /\ prep_pc' = "list"
  /\ UNCHANGED <<docs_mapping, raw, prepared, metadata, prep_i,
                 prep_error, all_results, faiss_chunks, main_results,
                 requests, nonPrepVars>>

\* the .pdf files of prepared/Amazon
ListedYears == {y \in Years : prepared[<<ListedCompany, y>>].exists}

\* duplicate-free orders of a set: what os.listdir may return
Orders(S) ==
  {s \in [1..Cardinality(S) -> S] : \A a, b \in DOMAIN s : s[a] = s[b] => a = b}

\* PDFTextExtractor.extract_text_from_pdf: one record per page, "page" is
\* the loader's page label, which counts from 0
ExtractTextFromPdf(file) ==
  [k \in 1..Len(file.pages) |-> [page |-> k - 1, content |-> file.pages[k]]]

\* PDFTextExtractor.process_all_pdfs over os.listdir(prepared/Amazon)
ProcessAllPdfs ==
  /\ prep_pc = "list"
  /\ \E order \in Orders(ListedYears) :
       all_results' =
         [k \in DOMAIN order |->
            [file |-> FileName(order[k]),
             pages |-> ExtractTextFromPdf(prepared[<<ListedCompany, order[k]>>])]]
  /\ prep_pc' = "index"
  /\ UNCHANGED <<docs_mapping, raw, prepared, metadata, metadata_file,
                 prep_i, prep_error, faiss_chunks, main_results,
                 requests, nonPrepVars>>

RECURSIVE PrepareTextChunks(_)
\* prepare_text_chunks: one chunk per page record, files in dict order
PrepareTextChunks(data) ==
  IF data = <<>>
    THEN <<>>
    ELSE [k \in 1..Len(Head(data).pages) |->
            [content |-> Head(data).pages[k].content,
             source |-> Head(data).file,
             page |-> Head(data).pages[k].page]]
         \o PrepareTextChunks(Tail(data))

\* create_faiss_index: FAISS.from_texts(...).save_local(faiss_index_path)
CreateFaissIndex ==
  /\ prep_pc = "index"
  /\ faiss_chunks' = PrepareTextChunks(all_results)
  /\ prep_pc' = "done"
  /\ UNCHANGED <<docs_mapping, raw, prepared, metadata, metadata_file,
                 prep_i, prep_error, all_results, main_results,
                 requests, nonPrepVars>>

\* document_assistant_agent PDFTextExtractor.extract_text_from_pdf: one
\* record per page of the rendered document, "page" is page_number + 1
DonutExtractTextFromPdf(file) ==
  [k \in 1..Len(file.pages) |->
     [page |-> (k - 1) + 1, content |-> file.pages[k]]]

\* main.py: the image-based extractor's process_all_pdfs over
\* os.listdir(prepared/Amazon), printed
MainProcessAllPdfs ==
  /\ prep_pc = "done"
  /\ \E order \in Orders(ListedYears) :
       main_results' =
         [k \in DOMAIN order |->
            [file |-> FileName(order[k]),
             pages |-> DonutExtractTextFromPdf(
                         prepared[<<ListedCompany, order[k]>>])]]
  /\ prep_pc' = "main_done"
  /\ UNCHANGED <<docs_mapping, raw, prepared, metadata, metadata_file,
                 prep_i, prep_error, all_results, faiss_chunks, requests, nonPrepVars>>

PrepNext ==
  \/ DownloadSkipEmptyUrl
  \/ DownloadAlreadyExists
  \/ DownloadOk
  \/ DownloadFailed
  \/ DownloadReturn
  \/ KeepSkipEmptyUrl
  \/ KeepCopyFull
  \/ KeepTrim
  \/ SaveMetadata
  \/ ProcessAllPdfs
  \/ CreateFaissIndex
  \/ MainProcessAllPdfs

\* ------------------------------------------------------------------------
\* download_pdf_files called several times over one base directory
\* (SpecDownload): each LocalLLMAgent construction calls it through
\* create_vector_db, and nothing else writes the company folders
\* ------------------------------------------------------------------------
\* the doc_info entries as download_pdf_files reads them: "doc_url" and
\* "year" only, a URL not tied to the year it is filed under
DownloadDocInfos ==
  {d \in DocInfos : ~d.has_pages} \cup EmptyDocInfos

DownloadManifests == SeqsOf(DownloadDocInfos, 1, MaxDocs)

\* a file put in the company folder before the first call
EarlierFile == SourcePdf("https://reports/earlier", 1)

DlIdle ==
  /\ dl_run = 0
  /\ dl_files = <<>>
  /\ dl_requests = <<>>

DlInit ==
  /\ docs_mapping \in DownloadManifests
  /\ raw \in [Keys -> {NoFile, EarlierFile}]
  /\ prepared = [k \in Keys |-> NoFile]
  /\ metadata = <<>>
  /\ metadata_file = [exists |-> FALSE, entries |-> <<>>]
  /\ prep_pc = "download"
  /\ prep_i = 1
  /\ prep_error = "none"
  /\ all_results = <<>>
  /\ faiss_chunks = <<>>
  /\ main_results = <<>>
  /\ requests = <<>>
  /\ dl_run = 1
  /\ dl_files = <<>>
  /\ dl_requests = <<>>

\* download_pdf_files returns and is called again with the same arguments
DownloadCalledAgain ==
  /\ prep_pc = "download"
  /\ prep_i > Len(docs_mapping)
  /\ dl_run >= 1
  /\ dl_run < MaxRuns
  /\ dl_files' = Append(dl_files, raw)
  /\ dl_requests' = Append(dl_requests, Len(requests))
  /\ dl_run' = dl_run + 1
  /\ prep_i' = 1
  /\ UNCHANGED <<docs_mapping, raw, prepared, metadata, metadata_file,
                 prep_pc, prep_error, all_results, faiss_chunks, main_results,
                 requests, nonDlVars>>

DownloadNext ==
  \/ DownloadSkipEmptyUrl
  \/ DownloadAlreadyExists
  \/ DownloadOk
  \/ DownloadFailed
  \/ DownloadCalledAgain

\* ------------------------------------------------------------------------
\* extract_entities_in_sql_db (SpecExtract): the extraction loop, the
\* aggregation loop and save_to_sqlite
\* ------------------------------------------------------------------------
\* entity_list, in dict order
EntityList == <<"revenue", "risks", "human_capital">>

\* the columns an entity type fills
EntityFields(entity) ==
  CASE entity = "revenue" ->
         {"revenue", "revenue_reasoning", "revenue_unit",
          "revenue_unit_reasoning"}
    [] entity = "risks" -> {"risks", "risks_reasoning"}
    [] entity = "human_capital" ->
         {"human_capital", "human_capital_reasoning"}
    [] OTHER -> {}

AllEntityFields == UNION {EntityFields(EntityList[k]) : k \in DOMAIN EntityList}

\* Python's None
None == "None"

\* The text the language model returns for one (document, entity type):
\*   "text"        no JSON at all (json.loads raises JSONDecodeError)
\*   "json_other"  valid JSON that is not an object (null, a list, a number)
\*   "json_object" a JSON object holding the keys in present
\* company and year are those of the prompt the text answers.
LlmResults(entity, m) ==
  {[kind |-> "text", present |-> {}, company |-> m.company, year |-> m.year],
   [kind |-> "json_other", present |-> {}, company |-> m.company,
    year |-> m.year],
   [kind |-> "json_object", present |-> EntityFields(entity),
    company |-> m.company, year |-> m.year],
   [kind |-> "json_object", present |-> {entity}, company |-> m.company,
    year |-> m.year]}

\* the value a JSON object of the model holds under key f
ValueIn(result, f) == f \o " of " \o result.company \o " " \o result.year

\* json.loads as it would behave without the try/except around it
JsonParsesUnguarded(result) == TRUE

\* json.loads(record["result"]) succeeds
JsonParses(result) == result.kind # "text"

\* the parsed value is a dict, so result.get exists
IsDict(result) == result.kind = "json_object"

\* result.get(f)
ResultGet(result, f) == IF f \in result.present THEN ValueIn(result, f) ELSE None

\* the metadata entries keep_relevant_pages_in_pdfs writes
MetadataEntries ==
  {BaseMetadata(d) : d \in {x \in DocInfos : x.doc_url = UrlOf(x.year)}}

\* the file names process_all_pdfs may return, in any listing order
Listings ==
  UNION {{[k \in DOMAIN o |-> FileName(o[k])] : o \in Orders(S)} :
         S \in SUBSET Years}

NoTable == [exists |-> FALSE, rows |-> <<>>]

\* the row an earlier pass wrote for a document of an earlier manifest
EarlierEntry ==
  [f \in {"company", "year", "source_doc"} \cup AllEntityFields |->
     CASE f = "company" -> ListedCompany
       [] f = "year" -> "2020"
       [] f = "source_doc" -> "https://reports/2020"
       [] OTHER -> f \o " of " \o ListedCompany \o " 2020"]

\* the table entity_data as an earlier pass left it
EarlierTable == [exists |-> TRUE, rows |-> <<EarlierEntry>>]

ExtIdle ==
  /\ json_data = <<>>
  /\ full_metadata = <<>>
  /\ ext_pc = "idle"
  /\ ext_idx = 0
  /\ ext_e = 0
  /\ extracted_entities = <<>>
  /\ agg_i = 0
  /\ aggregated_data = <<>>
  /\ entity_data = NoTable
  /\ table_before = NoTable
  /\ ext_out = <<>>
  /\ ext_error = "none"

\* The metadata list is the one keep_relevant_pages_in_pdfs wrote; the
\* prepared folder holds the file of every entry of the listed company, and
\* may hold files an earlier manifest left there. The store file is absent,
\* or holds the table an earlier pass wrote.
ExtInit ==
  /\ full_metadata \in SeqsOf(MetadataEntries, 0, MaxDocs)
  /\ json_data \in Listings
  /\ \A k \in DOMAIN full_metadata :
       full_metadata[k].company = ListedCompany =>
         \E j \in DOMAIN json_data :
           json_data[j] = FileName(full_metadata[k].year)
  /\ ext_pc = "extract"
  /\ ext_idx = 1
  /\ ext_e = 1
  /\ extracted_entities = <<>>
  /\ agg_i = 0
  /\ aggregated_data = <<>>
  /\ entity_data \in {NoTable, EarlierTable}
  /\ table_before = entity_data
  /\ ext_out = <<>>
  /\ ext_error = "none"

\* LOGGER.info("Searching in the database possible solutions....")
LoggerInfo == [via |-> "LOGGER.info", item |-> <<>>]

\* print(f"Error parsing JSON for record: {record}"): the text holds the
\* whole record, so its entity type, company and year
PrintRecord(record) ==
  [via |-> "print",
   item |-> <<record.company, record.year, record.entity_type>>]

\* {"entity_type": entity, "result": result, **metadata}
ExtractedRecord(entity, result, m) ==
  [entity_type |-> entity, result |-> result, company |-> m.company,
   year |-> m.year, doc_url |-> m.doc_url,
   local_pdf_path |-> m.local_pdf_path]

\* the metadata the extraction loop pairs with the document at idx
MetadataFor(idx) == full_metadata[idx]

\* one pass of the inner loop: retrieve, prompt the model, append the result
ExtractEntity ==
  /\ ext_pc = "extract"
  /\ ext_idx <= Len(json_data)
  /\ ext_idx <= Len(full_metadata)
  /\ LET m == MetadataFor(ext_idx)
         entity == EntityList[ext_e]
     IN \E result \in LlmResults(entity, m) :
          extracted_entities' =
            Append(extracted_entities, ExtractedRecord(entity, result, m))
  /\ ext_out' = Append(ext_out, LoggerInfo)
  /\ IF ext_e < Len(EntityList)
       THEN ext_e' = ext_e + 1 /\ ext_idx' = ext_idx
       ELSE ext_e' = 1 /\ ext_idx' = ext_idx + 1
  /\ UNCHANGED <<json_data, full_metadata, ext_pc, agg_i, aggregated_data,
                 entity_data, ext_error, table_before,
                 nonExtVars>>

\* full_metadata[idx] with idx past the end of the metadata list
ExtractIndexError ==
  /\ ext_pc = "extract"
  /\ ext_idx <= Len(json_data)
  /\ ext_idx > Len(full_metadata)
  /\ ext_pc' = "crashed"
  /\ ext_error' = "IndexError"
  /\ UNCHANGED <<json_data, full_metadata, ext_idx, ext_e,
                 extracted_entities, agg_i, aggregated_data, entity_data,
                 table_before,
                 ext_out, nonExtVars>>

\* the extraction loop ends, the aggregation loop starts
ExtractLoopEnd ==
  /\ ext_pc = "extract"
  /\ ext_idx > Len(json_data)
  /\ ext_pc' = "aggregate"
  /\ agg_i' = 1
  /\ aggregated_data' = <<>>
  /\ UNCHANGED <<json_data, full_metadata, ext_idx, ext_e,
                 extracted_entities, entity_data, ext_error, table_before,
                 ext_out, nonExtVars>>

InAggregate == ext_pc = "aggregate" /\ agg_i <= Len(extracted_entities)
CurRecord == extracted_entities[agg_i]

\* the lookup as it would be with the year left out of the condition
FindEntryByCompany(agg, record) ==
  IF \E k \in DOMAIN agg : agg[k].company = record.company
    THEN CHOOSE k \in DOMAIN agg :
           /\ agg[k].company = record.company
           /\ \A j \in 1..(k - 1) : agg[j].company # record.company
    ELSE 0

\* next(item for item in aggregated_data if company and year match): the
\* position of the first match, 0 when there is none
FindEntry(agg, record) ==
  IF \E k \in DOMAIN agg :
       agg[k].company = record.company /\ agg[k].year = record.year
    THEN CHOOSE k \in DOMAIN agg :
           /\ agg[k].company = record.company /\ agg[k].year = record.year
           /\ \A j \in 1..(k - 1) :
                ~(agg[j].company = record.company /\ agg[j].year = record.year)
    ELSE 0

\* the entry created when no entry matches
NewEntry(record) ==
  [f \in {"company", "year", "source_doc"} \cup AllEntityFields |->
     CASE f = "company" -> record.company
       [] f = "year" -> record.year
       [] f = "source_doc" -> record.doc_url
       [] OTHER -> None]

\* the update as it would be if every branch wrote the fields of all types
UpdateEntryAllFields(entry, entity_type, result) ==
  [f \in DOMAIN entry |->
     IF f \in AllEntityFields THEN ResultGet(result, f) ELSE entry[f]]

\* entry.update({...}) of the branch for record["entity_type"]
UpdateEntry(entry, entity_type, result) ==
  [f \in DOMAIN entry |->
     IF f \in EntityFields(entity_type) THEN ResultGet(result, f) ELSE entry[f]]

\* aggregated_data after the entry of the record is found or created
WithEntry(agg, record) ==
  IF FindEntry(agg, record) = 0 THEN Append(agg, NewEntry(record)) ELSE agg

\* json.loads raises JSONDecodeError: the record is printed and skipped
AggregateSkip ==
  /\ InAggregate
  /\ ~JsonParses(CurRecord.result)
  /\ ext_out' = Append(ext_out, PrintRecord(CurRecord))
  /\ agg_i' = agg_i + 1
  /\ UNCHANGED <<json_data, full_metadata, ext_pc, ext_idx, ext_e,
                 extracted_entities, aggregated_data, entity_data,
                 ext_error, table_before,
                 nonExtVars>>

\* the result parses as an object: find or create the entry, update it
AggregateMerge ==
  /\ InAggregate
  /\ JsonParses(CurRecord.result)
  /\ IsDict(CurRecord.result)
  /\ LET agg == WithEntry(aggregated_data, CurRecord)
         k == FindEntry(agg, CurRecord)
     IN aggregated_data' =
          [agg EXCEPT ![k] =
             UpdateEntry(agg[k], CurRecord.entity_type, CurRecord.result)]
  /\ agg_i' = agg_i + 1
  /\ UNCHANGED <<json_data, full_metadata, ext_pc, ext_idx, ext_e,
                 extracted_entities, entity_data, ext_error, table_before,
                 ext_out, nonExtVars>>

\* the result parses, but not as an object: the entry is found or created
\* and result.get raises AttributeError, which nothing catches
AggregateAttributeError ==
  /\ InAggregate
  /\ JsonParses(CurRecord.result)
  /\ ~IsDict(CurRecord.result)
  /\ aggregated_data' = WithEntry(aggregated_data, CurRecord)
  /\ ext_pc' = "crashed"
  /\ ext_error' = "AttributeError"
  /\ UNCHANGED <<json_data, full_metadata, ext_idx, ext_e,
                 extracted_entities, agg_i, entity_data, table_before,
                 ext_out, nonExtVars>>

\* to_sql as it would be with if_exists="append"
ToSqlAppend(table, rows) == [exists |-> TRUE, rows |-> table.rows \o rows]

\* dataframe.to_sql(table_name, conn, if_exists="replace"): an existing table
\* is dropped, the table is created again and the rows of the frame inserted
ToSql(table, rows) == [exists |-> TRUE, rows |-> rows]

\* the aggregation loop is over as it would be after its first record
AggregationOverEarly == agg_i > 1

\* the aggregation loop has handled every extracted record
AggregationOver == agg_i > Len(extracted_entities)

\* after the loop: DataFrame(aggregated_data), to_csv, save_to_sqlite with
\* if_exists="replace"
SaveToSqlite ==
  /\ ext_pc = "aggregate"
  /\ AggregationOver
  /\ entity_data' = ToSql(entity_data, aggregated_data)
  /\ ext_pc' = "done"
  /\ UNCHANGED <<json_data, full_metadata, ext_idx, ext_e,
                 extracted_entities, agg_i, aggregated_data, ext_error,
                 table_before,
                 ext_out, nonExtVars>>

\* save_to_sqlite when nothing was aggregated: the frame has no columns and
\* the engine may refuse the CREATE TABLE it is given (OperationalError);
\* the existing table was dropped before, or the drop is rolled back
SaveToSqliteNoColumns ==
  /\ ext_pc = "aggregate"
  /\ AggregationOver
  /\ aggregated_data = <<>>
  /\ entity_data' \in {NoTable, entity_data}
  /\ ext_pc' = "crashed"
  /\ ext_error' = "OperationalError"
  /\ UNCHANGED <<json_data, full_metadata, ext_idx, ext_e,
                 extracted_entities, agg_i, aggregated_data,
                 table_before,
                 ext_out, nonExtVars>>

ExtNext ==
  \/ ExtractEntity
  \/ ExtractIndexError
  \/ ExtractLoopEnd
  \/ AggregateSkip
  \/ AggregateMerge
  \/ AggregateAttributeError
  \/ SaveToSqlite
  \/ SaveToSqliteNoColumns

\* ------------------------------------------------------------------------
\* load_faiss_index and semantic_search_tool (SpecLoad)
\* ------------------------------------------------------------------------
\* chunk texts and queries are points on a line; the distance between two
\* of them stands for the distance of their embeddings
Texts == {1, 2, 3}
Queries == {1, 3}

NoIndex == [exists |-> FALSE, chunks |-> <<>>]
NoStore == [kind |-> "unset", chunks |-> <<>>]

\* the parameters FAISS.__init__ requires
FaissInitParams ==
  <<"embedding_function", "index", "docstore", "index_to_docstore_id">>

\* the positional arguments of the fallback: FAISS([], embedding_model)
FallbackArgs == <<"[]", "embedding_model">>

\* calling the constructor with too few arguments raises TypeError
ConstructorError(args) ==
  IF Len(args) < Len(FaissInitParams) THEN "TypeError" ELSE "none"

\* k of semantic_search_tool
SearchK == 2

Dist(a, b) == IF a >= b THEN a - b ELSE b - a

\* position k comes before position j in the result for query q: nearer
\* first, insertion order among equals
Before(chunks, q, k, j) ==
  \/ Dist(chunks[k], q) < Dist(chunks[j], q)
  \/ Dist(chunks[k], q) = Dist(chunks[j], q) /\ k < j

\* similarity_search(query, k): the k nearest chunks, nearest first
SimilaritySearch(chunks, q, k) ==
  LET rank(j) == Cardinality({i \in DOMAIN chunks : Before(chunks, q, i, j)}) + 1
      n == IF Len(chunks) < k THEN Len(chunks) ELSE k
  IN [p \in 1..n |-> chunks[CHOOSE j \in DOMAIN chunks : rank(j) = p]]

LoadIdle ==
  /\ disk_index = NoIndex
  /\ vector_store = NoStore
  /\ load_pc = "idle"
  /\ load_error = "none"
  /\ search_result = <<>>
  /\ load_out = <<>>

LoadInit ==
  /\ disk_index \in
       {NoIndex} \cup
       {[exists |-> TRUE, chunks |-> c] : c \in SeqsOf(Texts, 1, MaxChunks)}
  /\ vector_store = NoStore
  /\ load_pc = "call"
  /\ load_error = "none"
  /\ search_result = <<>>
  /\ load_out = <<>>

\* FAISS.load_local finds the persisted index
LoadExisting ==
  /\ load_pc = "call"
  /\ disk_index.exists
  /\ vector_store' = [kind |-> "loaded", chunks |-> disk_index.chunks]
  /\ load_pc' = "loaded"
  /\ UNCHANGED <<disk_index, load_error, search_result, load_out,
                 nonLoadVars>>

\* nothing is persisted and FAISS.load_local raises FileNotFoundError: the
\* except branch calls the constructor with two arguments; it logs and
\* prints nothing
LoadMissingFallback ==
  /\ load_pc = "call"
  /\ ~disk_index.exists
  /\ IF ConstructorError(FallbackArgs) = "none"
       THEN /\ vector_store' = [kind |-> "empty", chunks |-> <<>>]
            /\ load_pc' = "loaded"
            /\ load_error' = load_error
       ELSE /\ vector_store' = vector_store
            /\ load_pc' = "crashed"
            /\ load_error' = ConstructorError(FallbackArgs)
  /\ UNCHANGED <<disk_index, search_result, load_out,
                 nonLoadVars>>

\* nothing is persisted and the index reader of FAISS.load_local raises its
\* own RuntimeError, which the except clause does not name
LoadMissingUncaught ==
  /\ load_pc = "call"
  /\ ~disk_index.exists
  /\ load_pc' = "crashed"
  /\ load_error' = "RuntimeError"
  /\ UNCHANGED <<disk_index, vector_store, search_result, load_out,
                 nonLoadVars>>

\* semantic_search_tool: similarity_search(query, k=2) on self.vector_store
SemanticSearchTool ==
  /\ load_pc = "loaded"
  /\ \E q \in Queries :
       search_result' = SimilaritySearch(vector_store.chunks, q, SearchK)
  /\ load_pc' = "searched"
  /\ UNCHANGED <<disk_index, vector_store, load_error, load_out,
                 nonLoadVars>>

LoadNext ==
  \/ LoadExisting
  \/ LoadMissingFallback
  \/ LoadMissingUncaught
  \/ SemanticSearchTool

\* ------------------------------------------------------------------------
\* LocalLLMAgent.__init__ (SpecAgent): the calls of one construction in
\* order, and further constructions over the files the earlier ones left
\* ------------------------------------------------------------------------
\* the years of docs_mapping that have a source URL, in manifest order
ManifestYears == <<"2022", "2021">>

\* a raw file is missing, or has fewer pages than the page subset of its
\* manifest entry names ("short"), or has them all ("full")
RawStates == {"missing", "short", "full"}

NoArtifact == [exists |-> FALSE, built_by |-> 0]
Artifact(r) == [exists |-> TRUE, built_by |-> r]

AgentIdle ==
  /\ run = 0
  /\ agent_pc = "idle"
  /\ raw_state = [y \in Years |-> "missing"]
  /\ index_file = NoArtifact
  /\ store_file = NoArtifact
  /\ index_at_start = NoArtifact
  /\ store_at_start = NoArtifact
  /\ agent_store = 0 - 1
  /\ agent_db = 0 - 1
  /\ agent_log = <<>>
  /\ agent_error = "none"

\* the first construction finds whatever an earlier session left on disk
AgentInit ==
  /\ run = 1
  /\ agent_pc = "download_pdf_files"
  /\ raw_state \in [Years -> RawStates]
  /\ index_file \in {NoArtifact, Artifact(0)}
  /\ store_file \in {NoArtifact, Artifact(0)}
  /\ index_at_start = index_file
  /\ store_at_start = store_file
  /\ agent_store = 0 - 1
  /\ agent_db = 0 - 1
  /\ agent_log = <<>>
  /\ agent_error = "none"

\* create_vector_db: download_pdf_files. A file that exists is left alone;
\* for a missing one a request is made, which may fail or write the file.
AgentDownloadPdfFiles ==
  /\ agent_pc = "download_pdf_files"
  /\ \E new \in [Years -> RawStates] :
       /\ \A y \in Years : raw_state[y] # "missing" => new[y] = raw_state[y]
       /\ raw_state' = new
  /\ agent_log' =
       IF \E y \in Years : raw_state[y] = "missing"
         THEN agent_log \o <<"download_pdf_files", "requests.get">>
         ELSE Append(agent_log, "download_pdf_files")
  /\ agent_pc' = "keep_relevant_pages_in_pdfs"
  /\ UNCHANGED <<run, index_file, store_file, index_at_start,
                 store_at_start, agent_store, agent_db, agent_error,
                 nonAgentVars>>

\* the exception keep_relevant_pages_in_pdfs ends with: that of the first
\* manifest entry whose raw file is missing or short
RECURSIVE KeepPagesError(_, _)
KeepPagesError(years, state) ==
  IF years = <<>>
    THEN "none"
    ELSE CASE state[Head(years)] = "missing" -> "FileNotFoundError"
           [] state[Head(years)] = "short" -> "IndexError"
           [] OTHER -> KeepPagesError(Tail(years), state)

\* create_vector_db: keep_relevant_pages_in_pdfs rewrites the prepared
\* files and metadata.json
AgentKeepRelevantPages ==
  /\ agent_pc = "keep_relevant_pages_in_pdfs"
  /\ agent_log' = Append(agent_log, "keep_relevant_pages_in_pdfs")
  /\ agent_error' = KeepPagesError(ManifestYears, raw_state)
  /\ agent_pc' = IF agent_error' = "none" THEN "process_all_pdfs" ELSE "crashed"
  /\ UNCHANGED <<run, raw_state, index_file, store_file, index_at_start,
                 store_at_start, agent_store, agent_db, nonAgentVars>>

\* create_vector_db: PDFTextExtractor(...).process_all_pdfs()
AgentProcessAllPdfs ==
  /\ agent_pc = "process_all_pdfs"
  /\ agent_log' = Append(agent_log, "process_all_pdfs")
  /\ agent_pc' = "create_faiss_index"
  /\ UNCHANGED <<run, raw_state, index_file, store_file, index_at_start,
                 store_at_start, agent_store, agent_db, agent_error,
                 nonAgentVars>>

\* create_vector_db: prepare_text_chunks and create_faiss_index, which
\* embeds every chunk and saves the index at faiss_index_path
AgentCreateFaissIndex ==
  /\ agent_pc = "create_faiss_index"
  /\ agent_log' = agent_log \o <<"FAISS.from_texts", "save_local">>
  /\ index_file' = Artifact(run)
  /\ agent_pc' = "load_faiss_index"
  /\ UNCHANGED <<run, raw_state, store_file, index_at_start,
                 store_at_start, agent_store, agent_db, agent_error,
                 nonAgentVars>>

\* self.vector_store = load_faiss_index(...)
AgentLoadFaissIndex ==
  /\ agent_pc = "load_faiss_index"
  /\ index_file.exists
  /\ agent_log' = Append(agent_log, "load_faiss_index")
  /\ agent_store' = index_file.built_by
  /\ agent_pc' = "check_store"
  /\ UNCHANGED <<run, raw_state, index_file, store_file, index_at_start,
                 store_at_start, agent_db, agent_error, nonAgentVars>>

\* "if not os.path.exists(db_full_path)": extract_entities_in_sql_db runs
\* and writes the store file
AgentExtractEntities ==
  /\ agent_pc = "check_store"
  /\ ~store_file.exists
  /\ agent_log' = Append(agent_log, "extract_entities_in_sql_db")
  /\ store_file' = Artifact(run)
  /\ agent_pc' = "open_db"
  /\ UNCHANGED <<run, raw_state, index_file, index_at_start,
                 store_at_start, agent_store, agent_db, agent_error,
                 nonAgentVars>>

\* extract_entities_in_sql_db raises before save_to_sqlite (see SpecExtract)
AgentExtractEntitiesFails ==
  /\ agent_pc = "check_store"
  /\ ~store_file.exists
  /\ agent_log' = Append(agent_log, "extract_entities_in_sql_db")
  /\ \E e \in {"IndexError", "AttributeError", "OperationalError"} :
       agent_error' = e
  /\ agent_pc' = "crashed"
  /\ UNCHANGED <<run, raw_state, index_file, store_file, index_at_start,
                 store_at_start, agent_store, agent_db, nonAgentVars>>

\* the check of the store file as it would be if the extraction ran
\* whether or not the file exists
AgentExtractAlways ==
  /\ agent_pc = "check_store"
  /\ store_file.exists
  /\ agent_log' = Append(agent_log, "extract_entities_in_sql_db")
  /\ store_file' = Artifact(run)
  /\ agent_pc' = "open_db"
  /\ UNCHANGED <<run, raw_state, index_file, index_at_start,
                 store_at_start, agent_store, agent_db, agent_error,
                 nonAgentVars>>

\* the store file exists: no extraction
AgentSkipExtraction ==
  /\ agent_pc = "check_store"
  /\ store_file.exists
  /\ agent_pc' = "open_db"
  /\ UNCHANGED <<run, raw_state, index_file, store_file, index_at_start,
                 store_at_start, agent_store, agent_db, agent_log,
                 agent_error, nonAgentVars>>

\* self.db = SQLDatabase.from_uri(...), self.sql_chain
AgentOpenDb ==
  /\ agent_pc = "open_db"
  /\ agent_log' = Append(agent_log, "SQLDatabase.from_uri")
  /\ agent_db' = store_file.built_by
  /\ agent_pc' = "create_react_agent"
  /\ UNCHANGED <<run, raw_state, index_file, store_file, index_at_start,
                 store_at_start, agent_store, agent_error, nonAgentVars>>

\* __init__ as it would be with self.ask(question) ahead of the tools and
\* the graph
AgentAskBeforeTools ==
  /\ agent_pc = "create_react_agent"
  /\ agent_log' = agent_log \o <<"ask", "create_react_agent">>
  /\ agent_pc' = "answered"
  /\ UNCHANGED <<run, raw_state, index_file, store_file, index_at_start,
                 store_at_start, agent_store, agent_db, agent_error,
                 nonAgentVars>>

\* the two tools are wrapped and create_react_agent builds the graph
AgentCreateReactAgent ==
  /\ agent_pc = "create_react_agent"
  /\ agent_log' = Append(agent_log, "create_react_agent")
  /\ agent_pc' = "ask"
  /\ UNCHANGED <<run, raw_state, index_file, store_file, index_at_start,
                 store_at_start, agent_store, agent_db, agent_error,
                 nonAgentVars>>

\* self.ask(question)
AgentAsk ==
  /\ agent_pc = "ask"
  /\ agent_log' = Append(agent_log, "ask")
  /\ agent_pc' = "answered"
  /\ UNCHANGED <<run, raw_state, index_file, store_file, index_at_start,
                 store_at_start, agent_store, agent_db, agent_error,
                 nonAgentVars>>

\* the program is started again: a new LocalLLMAgent over the same folders
AgentConstructAgain ==
  /\ agent_pc \in {"answered", "crashed"}
  /\ run < MaxRuns
  /\ run' = run + 1
  /\ agent_pc' = "download_pdf_files"
  /\ index_at_start' = index_file
  /\ store_at_start' = store_file
  /\ agent_store' = 0 - 1
  /\ agent_db' = 0 - 1
  /\ agent_log' = <<>>
  /\ agent_error' = "none"
  /\ UNCHANGED <<raw_state, index_file, store_file, nonAgentVars>>

AgentNext ==
  \/ AgentDownloadPdfFiles
  \/ AgentKeepRelevantPages
  \/ AgentProcessAllPdfs
  \/ AgentCreateFaissIndex
  \/ AgentLoadFaissIndex
  \/ AgentExtractEntities
  \/ AgentExtractEntitiesFails
  \/ AgentSkipExtraction
  \/ AgentOpenDb
  \/ AgentCreateReactAgent
  \/ AgentAsk
  \/ AgentConstructAgain

\* ------------------------------------------------------------------------
\* LocalLLMAgent.__init__ in several processes at once (SpecConcurrent):
\* each process constructs one agent for one question; all use the same
\* faiss_index_path and db_path
\* ------------------------------------------------------------------------
Instances == 1..MaxInstances

NoShared == [exists |-> FALSE, built_by |-> 0, complete |-> FALSE]
\* a file that instance i (0: an earlier session) has written to the end
Written(i) == [exists |-> TRUE, built_by |-> i, complete |-> TRUE]
\* a file instance i has begun to write
Partial(i) == [exists |-> TRUE, built_by |-> i, complete |-> FALSE]

ConcIdle ==
  /\ inst_pc = [i \in Instances |-> "idle"]
  /\ shared_index = NoShared
  /\ shared_store = NoShared
  /\ inst_store = [i \in Instances |-> NoShared]
  /\ inst_db = [i \in Instances |-> NoShared]

\* every process has entered __init__; the disk is as an earlier session
\* left it
ConcInit ==
  /\ inst_pc = [i \in Instances |-> "create_vector_db"]
  /\ shared_index \in {NoShared, Written(0)}
  /\ shared_store \in {NoShared, Written(0)}
  /\ inst_store = [i \in Instances |-> NoShared]
  /\ inst_db = [i \in Instances |-> NoShared]

\* create_vector_db up to create_faiss_index: download, trim, extract text,
\* chunk and embed; it raises when a raw file is missing or short
ConcPrepare(i) ==
  /\ inst_pc[i] = "create_vector_db"
  /\ \E next \in {"save_local", "crashed"} :
       inst_pc' = [inst_pc EXCEPT ![i] = next]
  /\ UNCHANGED <<shared_index, shared_store, inst_store, inst_db,
                 nonConcVars>>

\* vector_store.save_local(faiss_index_file) starts writing the index files
ConcSaveLocalBegin(i) ==
  /\ inst_pc[i] = "save_local"
  /\ shared_index' = Partial(i)
  /\ inst_pc' = [inst_pc EXCEPT ![i] = "save_local_end"]
  /\ UNCHANGED <<shared_store, inst_store, inst_db, nonConcVars>>

\* save_local has written the last file; the index is whole unless another
\* process began to overwrite it meanwhile
ConcSaveLocalEnd(i) ==
  /\ inst_pc[i] = "save_local_end"
  /\ shared_index' =
       IF shared_index.built_by = i THEN Written(i) ELSE shared_index
  /\ inst_pc' = [inst_pc EXCEPT ![i] = "load_faiss_index"]
  /\ UNCHANGED <<shared_store, inst_store, inst_db, nonConcVars>>

\* self.vector_store = load_faiss_index(...): reads what is on disk now; a
\* half-written index loads as it is or makes the load raise
ConcLoadFaissIndex(i) ==
  /\ inst_pc[i] = "load_faiss_index"
  /\ inst_store' = [inst_store EXCEPT ![i] = shared_index]
  /\ \E next \in (IF shared_index.complete
                    THEN {"check_store"}
                    ELSE {"check_store", "crashed"}) :
       inst_pc' = [inst_pc EXCEPT ![i] = next]
  /\ UNCHANGED <<shared_index, shared_store, inst_db, nonConcVars>>

\* "if not os.path.exists(db_full_path)" finds no store file
ConcCheckStoreAbsent(i) ==
  /\ inst_pc[i] = "check_store"
  /\ ~shared_store.exists
  /\ inst_pc' = [inst_pc EXCEPT ![i] = "extract_entities_in_sql_db"]
  /\ UNCHANGED <<shared_index, shared_store, inst_store, inst_db,
                 nonConcVars>>

\* the store file exists: no extraction
ConcCheckStoreExists(i) ==
  /\ inst_pc[i] = "check_store"
  /\ shared_store.exists
  /\ inst_pc' = [inst_pc EXCEPT ![i] = "open_db"]
  /\ UNCHANGED <<shared_index, shared_store, inst_store, inst_db,
                 nonConcVars>>

\* extract_entities_in_sql_db ends with save_to_sqlite, which replaces the
\* table of the store file
ConcExtractEntities(i) ==
  /\ inst_pc[i] = "extract_entities_in_sql_db"
  /\ shared_store' = Written(i)
  /\ inst_pc' = [inst_pc EXCEPT ![i] = "open_db"]
  /\ UNCHANGED <<shared_index, inst_store, inst_db, nonConcVars>>

\* extract_entities_in_sql_db raises before save_to_sqlite (see SpecExtract)
ConcExtractEntitiesFails(i) ==
  /\ inst_pc[i] = "extract_entities_in_sql_db"
  /\ inst_pc' = [inst_pc EXCEPT ![i] = "crashed"]
  /\ UNCHANGED <<shared_index, shared_store, inst_store, inst_db,
                 nonConcVars>>

\* self.db, self.sql_chain, the tools and the graph
ConcOpenDb(i) ==
  /\ inst_pc[i] = "open_db"
  /\ inst_db' = [inst_db EXCEPT ![i] = shared_store]
  /\ inst_pc' = [inst_pc EXCEPT ![i] = "ask"]
  /\ UNCHANGED <<shared_index, shared_store, inst_store, nonConcVars>>

\* self.ask(question): the loop reads self.vector_store and self.db
ConcAsk(i) ==
  /\ inst_pc[i] = "ask"
  /\ inst_pc' = [inst_pc EXCEPT ![i] = "answered"]
  /\ UNCHANGED <<shared_index, shared_store, inst_store, inst_db,
                 nonConcVars>>

ConcNext ==
  \E i \in Instances :
    \/ ConcPrepare(i)
    \/ ConcSaveLocalBegin(i)
    \/ ConcSaveLocalEnd(i)
    \/ ConcLoadFaissIndex(i)
    \/ ConcCheckStoreAbsent(i)
    \/ ConcCheckStoreExists(i)
    \/ ConcExtractEntities(i)
    \/ ConcExtractEntitiesFails(i)
    \/ ConcOpenDb(i)
    \/ ConcAsk(i)

\* ------------------------------------------------------------------------
\* entrypoint and parse_custom_args (SpecCfg)
\* ------------------------------------------------------------------------
\* the options the program reads from its configuration, and the question
RecognizedKeys ==
  {"question", "openai_model", "openai_embeddings_model", "faiss_index_name",
   "db_path", "documents_download_folder"}

\* a dict with no keys
EmptyDict == [k \in {} |-> ""]

\* the contents of default.yaml: every option, with or without a question
DefaultCfgs ==
  {[k \in RecognizedKeys |-> "default"],
   [k \in RecognizedKeys \ {"question"} |-> "default"]}

\* command-line arguments, cut at every "="
ArgPool ==
  {<<"db_path", "=", "other.db">>,
   <<"colour", "=", "red">>,
   <<"question", "=", "a", "=", "b">>,
   <<"help">>,
   <<"verbose">>}

\* "=" in arg
HasEq(arg) == \E k \in DOMAIN arg : arg[k] = "="

\* the position of the first "=" of arg
FirstEq(arg) ==
  CHOOSE k \in DOMAIN arg : arg[k] = "=" /\ \A j \in 1..(k - 1) : arg[j] # "="

RECURSIVE Join(_)
Join(pieces) ==
  IF pieces = <<>> THEN "" ELSE Head(pieces) \o Join(Tail(pieces))

\* key, value = arg.split("=", 1)
SplitKey(arg) == Join(SubSeq(arg, 1, FirstEq(arg) - 1))
SplitValue(arg) == Join(SubSeq(arg, FirstEq(arg) + 1, Len(arg)))

\* d[key] = value
Put(d, key, value) ==
  [k \in DOMAIN d \cup {key} |-> IF k = key THEN value ELSE d[k]]

\* {**a, **b}
Merge(a, b) ==
  [k \in DOMAIN a \cup DOMAIN b |-> IF k \in DOMAIN b THEN b[k] ELSE a[k]]

\* del d[key]
Del(d, key) == [k \in DOMAIN d \ {key} |-> d[k]]

\* the names entrypoint treats as commands
Special == {"help"}

CfgIdle ==
  /\ cli_args = <<>>
  /\ default_cfg = EmptyDict
  /\ cfg_pc = "idle"
  /\ cfg_i = 0
  /\ custom_args = EmptyDict
  /\ config = EmptyDict
  /\ agent_cfg = EmptyDict
  /\ cfg_out = <<>>
  /\ cfg_error = "none"

CfgInit ==
  /\ cli_args \in SeqsOf(ArgPool, 0, MaxArgs)
  /\ default_cfg \in DefaultCfgs
  /\ cfg_pc = "parse_custom_args"
  /\ cfg_i = 1
  /\ custom_args = EmptyDict
  /\ config = EmptyDict
  /\ agent_cfg = EmptyDict
  /\ cfg_out = <<>>
  /\ cfg_error = "none"

\* parse_custom_args: an argument with "=" is stored under its key
ParseKeyValue ==
  /\ cfg_pc = "parse_custom_args"
  /\ cfg_i <= Len(cli_args)
  /\ HasEq(cli_args[cfg_i])
  /\ custom_args' =
       Put(custom_args, SplitKey(cli_args[cfg_i]), SplitValue(cli_args[cfg_i]))
  /\ cfg_i' = cfg_i + 1
  /\ UNCHANGED <<cli_args, default_cfg, cfg_pc, config, agent_cfg, cfg_out,
                 cfg_error, nonCfgVars>>

\* parse_custom_args: an argument without "=" is ignored with a warning
ParseMalformed ==
  /\ cfg_pc = "parse_custom_args"
  /\ cfg_i <= Len(cli_args)
  /\ ~HasEq(cli_args[cfg_i])
  /\ cfg_out' = Append(cfg_out, "Ignored malformed argument: " \o
                                Join(cli_args[cfg_i]))
  /\ cfg_i' = cfg_i + 1
  /\ UNCHANGED <<cli_args, default_cfg, cfg_pc, custom_args, config, agent_cfg,
                 cfg_error, nonCfgVars>>

\* config = {**DEFAULT_CFG, **custom_args}
MergeConfig ==
  /\ cfg_pc = "parse_custom_args"
  /\ cfg_i > Len(cli_args)
  /\ config' = Merge(default_cfg, custom_args)
  /\ cfg_pc' = "special"
  /\ UNCHANGED <<cli_args, default_cfg, cfg_i, custom_args, agent_cfg, cfg_out,
                 cfg_error, nonCfgVars>>

\* some argument is a special command: it runs and entrypoint returns
SpecialCommand ==
  /\ cfg_pc = "special"
  /\ \E k \in DOMAIN cli_args : Join(cli_args[k]) \in Special
  /\ cfg_out' = Append(cfg_out, "Usage: <script> [key1=value1 key2=value2 ...]")
  /\ cfg_pc' = "returned"
  /\ UNCHANGED <<cli_args, default_cfg, cfg_i, custom_args, config, agent_cfg,
                 cfg_error, nonCfgVars>>

\* question = config["question"] with no question in the configuration
QuestionMissing ==
  /\ cfg_pc = "special"
  /\ \A k \in DOMAIN cli_args : Join(cli_args[k]) \notin Special
  /\ "question" \notin DOMAIN config
  /\ cfg_out' = Append(cfg_out, "Final configuration")
  /\ cfg_error' = "KeyError"
  /\ cfg_pc' = "crashed"
  /\ UNCHANGED <<cli_args, default_cfg, cfg_i, custom_args, config, agent_cfg,
                 nonCfgVars>>

\* the question is taken out of config and LocalLLMAgent(question, **config)
\* sets self.cfg = ConfigDict({**DEFAULT_CFG, **kwargs})
ConstructAgent ==
  /\ cfg_pc = "special"
  /\ \A k \in DOMAIN cli_args : Join(cli_args[k]) \notin Special
  /\ "question" \in DOMAIN config
  /\ cfg_out' = Append(cfg_out, "Final configuration")
  /\ config' = Del(config, "question")
  /\ agent_cfg' = Merge(default_cfg, config')
  /\ cfg_pc' = "constructed"
  /\ UNCHANGED <<cli_args, default_cfg, cfg_i, custom_args, cfg_error,
                 nonCfgVars>>

CfgNext ==
  \/ ParseKeyValue
  \/ ParseMalformed
  \/ MergeConfig
  \/ SpecialCommand
  \/ QuestionMissing
  \/ ConstructAgent

\* ------------------------------------------------------------------------
\* Properties of keep_relevant_pages_in_pdf (SpecTrim)
\* ------------------------------------------------------------------------
TrimUrl == UrlOf("2021")

\* every page number of the subset exists in the source (1-indexed)
SubsetInSource(pages, file) ==
  \A k \in DOMAIN pages : pages[k] \in 1..Len(file.pages)

\* C6: for a page subset P whose page numbers all exist in the source,
\* keep_relevant_pages_in_pdf writes a document of exactly |P| pages whose
\* i-th page is source page P[i], whatever the source page count.
C6_SubsetPagesInOrder ==
  (trim_pc # "call" /\ SubsetInSource(trim_pages, trim_input)) =>
    /\ trim_pc = "returned"
    /\ trim_output.exists
    /\ Len(trim_output.pages) = Len(trim_pages)
    /\ \A k \in DOMAIN trim_pages :
         trim_output.pages[k] = SourcePage(TrimUrl, trim_pages[k])

\* C6 witness: a subset of two pages in descending order has been written
C6_Witness ==
  /\ trim_pc = "returned"
  /\ SubsetInSource(trim_pages, trim_input)
  /\ Len(trim_pages) = 2
  /\ trim_pages[1] > trim_pages[2]
  /\ Len(trim_input.pages) >= 2

\* ------------------------------------------------------------------------
\* Properties of create_vector_db (SpecPrep)
\* ------------------------------------------------------------------------
\* the doc_info about to be handled by keep_relevant_pages_in_pdfs has a
\* source URL, a source file and no page subset
FullCopyCase ==
  /\ InKeep
  /\ CurDoc.doc_url # ""
  /\ PagesOf(CurDoc) = <<>>
  /\ raw[CurKey].exists

\* C7: handling a document with no page subset (key absent or list empty)
\* produces a prepared document with the page count of the source and
\* appends a metadata entry for it that carries no pages_kept field.
C7_FullCopyKeepsPageCount ==
  [][FullCopyCase =>
       /\ prepared'[CurKey].exists
       /\ Len(prepared'[CurKey].pages) = Len(raw[CurKey].pages)
       /\ Len(metadata') = Len(metadata) + 1
       /\ metadata'[Len(metadata')].year = CurDoc.year
       /\ metadata'[Len(metadata')].company = CurDoc.company
       /\ "pages_kept" \notin DOMAIN metadata'[Len(metadata')]]_vars

\* C7 witness: a two-page source without page subset has been prepared, once
\* with the pages key absent and once with an empty list
C7_Witness ==
  /\ prep_pc = "list"
  /\ Len(docs_mapping) = 2
  /\ docs_mapping[1].doc_url # "" /\ docs_mapping[2].doc_url # ""
  /\ docs_mapping[1].year # docs_mapping[2].year
  /\ ~docs_mapping[1].has_pages
  /\ docs_mapping[2].has_pages /\ docs_mapping[2].pages = <<>>
  /\ Len(metadata_file.entries) = 2
  /\ \A k \in 1..2 :
       /\ Len(prepared[<<docs_mapping[k].company, docs_mapping[k].year>>].pages)
            = 2
       /\ "pages_kept" \notin DOMAIN metadata_file.entries[k]

\* the metadata entries built so far that carry a page subset
EntriesWithSubset == {k \in DOMAIN metadata : "pages_kept" \in DOMAIN metadata[k]}

\* C8: a page subset with an index outside 1..(source page count), 0 and
\* negative numbers included, fails for that document only: no page is
\* substituted (no entry is recorded for such a subset) and the batch is
\* not aborted by it.
C8_InvalidPageIndexIsolated ==
  /\ prep_error # "IndexError"
  /\ \A k \in EntriesWithSubset :
       SubsetInSource(metadata[k].pages_kept,
                      raw[<<metadata[k].company, metadata[k].year>>])

\* C9: a document whose download failed (no file written) is skipped: the
\* preparation does not abort on the missing source file, and every
\* document that was downloaded is listed in the metadata manifest and
\* indexed.
C9_FailedDownloadNonFatal ==
  /\ ~(prep_pc = "crashed" /\ prep_error = "FileNotFoundError")
  /\ prep_pc = "done" =>
       \A k \in DOMAIN docs_mapping :
         (docs_mapping[k].doc_url # ""
          /\ raw[<<docs_mapping[k].company, docs_mapping[k].year>>].exists) =>
           /\ \E j \in DOMAIN metadata_file.entries :
                /\ metadata_file.entries[j].company = docs_mapping[k].company
                /\ metadata_file.entries[j].year = docs_mapping[k].year
           /\ \E j \in DOMAIN faiss_chunks :
                faiss_chunks[j].source = FileName(docs_mapping[k].year)

\* ------------------------------------------------------------------------
\* Properties of extract_entities_in_sql_db (SpecExtract)
\* ------------------------------------------------------------------------
\* the (company, year) pairs of the extraction results
PairsSeen ==
  {<<extracted_entities[r].company, extracted_entities[r].year>> :
     r \in DOMAIN extracted_entities}

RecordsOf(pair) ==
  {r \in DOMAIN extracted_entities :
     <<extracted_entities[r].company, extracted_entities[r].year>> = pair}

RowsOf(pair) ==
  {k \in DOMAIN entity_data.rows :
     <<entity_data.rows[k].company, entity_data.rows[k].year>> = pair}

\* C1 as stated: after a full pass every pair of the extraction results has
\* exactly one row in entity_data, whether or not its results parsed.
C1_ExactlyOneRowPerPair ==
  ext_pc = "done" => \A pair \in PairsSeen : Cardinality(RowsOf(pair)) = 1

\* C1 amended: after a full pass every pair of the extraction results has at
\* most one row in entity_data; it has exactly one when at least one of its
\* results parsed as JSON and none when all of them failed to parse.
C1_OneRowPerParsedPair ==
  ext_pc = "done" =>
    /\ entity_data.exists
    /\ \A pair \in PairsSeen :
         Cardinality(RowsOf(pair)) =
           IF \E r \in RecordsOf(pair) :
                extracted_entities[r].result.kind # "text"
             THEN 1 ELSE 0
    /\ \A k \in DOMAIN entity_data.rows :
         <<entity_data.rows[k].company, entity_data.rows[k].year>> \in PairsSeen

\* the document (position in json_data) a result was extracted for
DocIndex(r) == ((r - 1) \div Len(EntityList)) + 1

\* C1 witness: a full pass in which two documents share one pair, results of
\* both parsed, and another pair is present as well
C1_Witness ==
  /\ ext_pc = "done"
  /\ \E r1, r2 \in DOMAIN extracted_entities :
       /\ DocIndex(r1) # DocIndex(r2)
       /\ extracted_entities[r1].year = extracted_entities[r2].year
       /\ extracted_entities[r1].result.kind = "json_object"
       /\ extracted_entities[r2].result.kind = "json_object"
  /\ Len(entity_data.rows) = 1

\* the records the aggregation loop has handled so far
Processed == 1..(agg_i - 1)

\* the handled results of the same pair and entity type as record r that
\* parsed as a JSON object
ParsedLike(r) ==
  {q \in RecordsOf(<<extracted_entities[r].company, extracted_entities[r].year>>)
       \cap Processed :
     /\ extracted_entities[q].entity_type = extracted_entities[r].entity_type
     /\ extracted_entities[q].result.kind = "json_object"}

\* the last element of a non-empty set of positions
Last(S) == CHOOSE q \in S : \A x \in S : x <= q

\* the value column f of a row holds once result src was merged into it
Merged(src, row, f) ==
  IF f \in src.present
    THEN f \o " of " \o row.company \o " " \o row.year
    ELSE None

YearOfFile(file) == CHOOSE y \in Years : FileName(y) = file

\* C10: every extraction result carries the company and year of the
\* document it was extracted for, whatever the listing order of the
\* prepared files and whether or not json_data and the metadata list have
\* the same length.
C10_ResultsKeyedByDocument ==
  \A r \in DOMAIN extracted_entities :
    /\ extracted_entities[r].company = ListedCompany
    /\ extracted_entities[r].year = YearOfFile(json_data[DocIndex(r)])

\* ------------------------------------------------------------------------
\* Properties of load_faiss_index (SpecLoad)
\* ------------------------------------------------------------------------
\* C4: with no persisted index at the index path, load_faiss_index returns
\* an empty, queryable index instead of failing, and a similarity query on
\* it returns an empty result.
C4_MissingIndexLoadsEmpty ==
  (~disk_index.exists /\ load_pc # "call") =>
    /\ load_pc # "crashed"
    /\ load_error = "none"
    /\ vector_store.kind # "unset"
    /\ vector_store.chunks = <<>>
    /\ load_pc = "searched" => search_result = <<>>

\* ------------------------------------------------------------------------
\* Properties of LocalLLMAgent.__init__ (SpecAgent)
\* ------------------------------------------------------------------------
\* the calls that download, re-extract, re-embed or overwrite
RebuildCalls ==
  {"requests.get", "keep_relevant_pages_in_pdfs", "process_all_pdfs",
   "FAISS.from_texts", "save_local"}

\* C5: when a persisted index exists at the index path as the agent is
\* constructed, the construction loads that index and does not download,
\* re-extract, re-embed or overwrite it.
C5_ExistingIndexNotRebuilt ==
  index_at_start.exists =>
    /\ \A k \in DOMAIN agent_log : agent_log[k] \notin RebuildCalls
    /\ index_file = index_at_start
    /\ agent_store # 0 - 1 => agent_store = index_at_start.built_by

\* C11: the store write is a full replace: once save_to_sqlite has run, the
\* table entity_data holds exactly the records aggregated in that pass, in
\* their order, and no row an earlier pass wrote is left in it.
C11_StoreWriteIsFullReplace ==
  ext_pc = "done" =>
    /\ entity_data.exists
    /\ entity_data.rows = aggregated_data
    /\ \A k \in DOMAIN entity_data.rows :
         \A j \in DOMAIN table_before.rows :
           entity_data.rows[k] # table_before.rows[j]

\* C11 witness: a pass that found the table of an earlier pass has written
\* the rows of its two documents
C11_Witness ==
  /\ ext_pc = "done"
  /\ table_before = EarlierTable
  /\ Len(aggregated_data) = 2
  /\ entity_data.rows = aggregated_data

\* the rows a reader of the store does not know from before the pass
NewRows ==
  {k \in DOMAIN entity_data.rows :
     \A j \in DOMAIN table_before.rows :
       entity_data.rows[k] # table_before.rows[j]}

\* C12: records of a pass become visible in the store once, and only after
\* every extraction result of the pass was handled by the aggregation loop:
\* a row of the current pass that a reader can see has no result of its pair
\* pending, and the table changes only in the step that ends the
\* aggregation.
C12_NoPartialRecordVisible ==
  /\ [](\A k \in NewRows :
          /\ ext_idx > Len(json_data)
          /\ AggregationOver
          /\ \A r \in RecordsOf(<<entity_data.rows[k].company,
                                  entity_data.rows[k].year>>) :
               r \in Processed
          /\ entity_data.rows = aggregated_data)
  /\ [][entity_data' # entity_data =>
          /\ ext_pc = "aggregate"
          /\ AggregationOver
          /\ ext_pc' \in {"done", "crashed"}]_vars
  /\ [][(ext_pc = "done" \/ ext_pc = "crashed") =>
          entity_data' = entity_data]_vars

\* C12 witness: one entity type of a document is merged and the others are
\* pending, and the store still shows what it held before the pass
C12_Witness ==
  /\ ext_pc = "aggregate"
  /\ Len(aggregated_data) = 1
  /\ aggregated_data[1].revenue # None
  /\ agg_i = 2
  /\ Len(extracted_entities) > 2
  /\ entity_data = table_before
  /\ table_before = EarlierTable

\* a question is being handled by instance i
Handling(i) == inst_pc[i] \notin {"idle", "answered", "crashed"}

\* C14: handling a question only reads the index and the store: while some
\* instance handles a question an artifact that exists is not written, and
\* no instance loads an index or opens a store that is not written to the
\* end.
C14_QueryHandlingOnlyReads ==
  /\ [][(\E i \in Instances : Handling(i)) =>
          /\ shared_index.exists => shared_index' = shared_index
          /\ shared_store.exists => shared_store' = shared_store]_vars
  /\ [](\A i \in Instances :
          /\ inst_store[i].exists => inst_store[i].complete
          /\ inst_db[i].exists => inst_db[i].complete)

\* the except branch of load_faiss_index was taken
FallbackTaken ==
  /\ load_pc \in {"loaded", "searched", "crashed"}
  /\ ~disk_index.exists
  /\ load_error # "RuntimeError"

\* C16: every error that is caught and recovered from leaves an entry that
\* names the offending item: the missing-index fallback of load_faiss_index
\* one that names the index path, and each JSON parse failure of the
\* aggregation loop one that names the document and the entity type.
C16_RecoveredErrorsLogged ==
  /\ FallbackTaken =>
       \E k \in DOMAIN load_out : load_out[k].item = "index_path"
  /\ \A r \in Processed :
       extracted_entities[r].result.kind = "text" =>
         \E k \in DOMAIN ext_out :
           ext_out[k].item = <<extracted_entities[r].company,
                               extracted_entities[r].year,
                               extracted_entities[r].entity_type>>

\* the keys of the command line that are not recognized options
UnknownKeys ==
  {SplitKey(cli_args[k]) : k \in {j \in DOMAIN cli_args : HasEq(cli_args[j])}}
    \ RecognizedKeys

\* C17: configuration loading rejects unknown keys: a key=value argument
\* whose key is not a recognized option makes the load fail; it is never
\* merged into the configuration, and no agent is constructed with it.
C17_UnknownKeysRejected ==
  /\ DOMAIN config \subseteq RecognizedKeys
  /\ DOMAIN agent_cfg \subseteq RecognizedKeys
  /\ UnknownKeys # {} => cfg_pc # "constructed"

\* the page records of a listing have page numbers from 1 and there is one
\* for every page of the prepared file they were read from
PageRecordsFromOne(results) ==
  \A k \in DOMAIN results :
    /\ \A j \in DOMAIN results[k].pages : results[k].pages[j].page >= 1
    /\ \E y \in Years :
         /\ results[k].file = FileName(y)
         /\ Len(results[k].pages) = Len(prepared[<<ListedCompany, y>>].pages)

\* C18: every page record of the text extractors and every chunk built from
\* one by prepare_text_chunks has a page number >= 1, and every page of a
\* prepared file has its record, whatever text it holds.
C18_PageNumbersFromOne ==
  /\ PageRecordsFromOne(all_results)
  /\ PageRecordsFromOne(main_results)
  /\ \A k \in DOMAIN faiss_chunks : faiss_chunks[k].page >= 1

\* the aggregation loop is at a result that parses as a JSON object
MergeCase == InAggregate /\ CurRecord.result.kind = "json_object"

\* C19: merging a parsed result of entity type T into the row of its
\* (company, year) sets the fields of T, a field absent from the JSON to
\* null, and leaves company, year, source_doc, the fields of every other
\* entity type and every other row as they were.
C19_MergeChangesOnlyItsFields ==
  [][MergeCase =>
       LET rec == CurRecord
           old == FindEntry(aggregated_data, rec)
           k == IF old = 0 THEN Len(aggregated_data) + 1 ELSE old
           before == IF old = 0 THEN NewEntry(rec) ELSE aggregated_data[old]
       IN /\ Len(aggregated_data') = Len(aggregated_data)
                                       + (IF old = 0 THEN 1 ELSE 0)
          /\ \A j \in DOMAIN aggregated_data :
               j # k => aggregated_data'[j] = aggregated_data[j]
          /\ aggregated_data'[k].company = rec.company
          /\ aggregated_data'[k].year = rec.year
          /\ aggregated_data'[k].source_doc = before.source_doc
          /\ \A f \in AllEntityFields \ EntityFields(rec.entity_type) :
               aggregated_data'[k][f] = before[f]
          /\ \A f \in EntityFields(rec.entity_type) :
               aggregated_data'[k][f] =
                 IF f \in rec.result.present
                   THEN f \o " of " \o rec.result.company \o " "
                          \o rec.result.year
                   ELSE None]_vars

\* C19 witness: risks was merged into a row that already held revenue; the
\* JSON had no risks_reasoning, which is null, and revenue is as it was
C19_Witness ==
  /\ ext_pc = "aggregate"
  /\ agg_i = 3
  /\ Len(aggregated_data) = 1
  /\ extracted_entities[1].result.kind = "json_object"
  /\ extracted_entities[2].result.present = {"risks"}
  /\ aggregated_data[1].revenue # None
  /\ aggregated_data[1].revenue_reasoning # None
  /\ aggregated_data[1].risks # None
  /\ aggregated_data[1].risks_reasoning = None
  /\ aggregated_data[1].human_capital = None

\* the positions of the manifest documents that have a source URL
WithUrl == {k \in DOMAIN docs_mapping : docs_mapping[k].doc_url # ""}

\* the number of documents with a source URL among the first k
UrlRank(k) == Cardinality({j \in WithUrl : j <= k})

\* the page subset given for a manifest document, empty when none was
GivenSubset(d) == IF d.has_pages THEN d.pages ELSE <<>>

\* C20: the metadata manifest keep_relevant_pages_in_pdfs writes has exactly
\* one entry per manifest document with a non-empty source URL, in manifest
\* order, with company, year, doc_url and local_pdf_path of the document,
\* and with pages_kept, equal to the given subset, exactly when a non-empty
\* subset was given; a document with an empty URL has no entry.
C20_ManifestEntries ==
  metadata_file.exists =>
    /\ Len(metadata_file.entries) = Cardinality(WithUrl)
    /\ \A k \in WithUrl :
         LET d == docs_mapping[k]
             e == metadata_file.entries[UrlRank(k)]
         IN /\ e.company = d.company
            /\ e.year = d.year
            /\ e.doc_url = d.doc_url
            /\ e.local_pdf_path =
                 "prepared/" \o d.company \o "/annual_report_" \o d.year
                   \o ".pdf"
            /\ IF GivenSubset(d) # <<>>
                 THEN /\ DOMAIN e = {"company", "year", "doc_url",
                                     "local_pdf_path", "pages_kept"}
                      /\ e.pages_kept = GivenSubset(d)
                 ELSE DOMAIN e = {"company", "year", "doc_url",
                                  "local_pdf_path"}

\* C20 witness: a manifest of a document with the subset (2, 1) and a
\* document without URL was written as one entry with that subset
C20_Witness ==
  /\ metadata_file.exists
  /\ Len(docs_mapping) = 2
  /\ docs_mapping[1].doc_url # ""
  /\ docs_mapping[1].pages = <<2, 1>>
  /\ docs_mapping[2].doc_url = ""
  /\ Len(metadata_file.entries) = 1
  /\ metadata_file.entries[1].pages_kept = <<2, 1>>

\* every occurrence of call b in the log of the construction has call a
\* somewhere before it
CalledBefore(a, b) ==
  \A j \in DOMAIN agent_log :
    agent_log[j] = b => \E i \in 1..(j - 1) : agent_log[i] = a

\* C21: a construction runs the pipeline in a fixed order: the documents
\* are prepared and the index is built and saved before the index is
\* loaded, the index is loaded before the extraction reads it, the store
\* file is written before the SQL connection is opened, and the question
\* reaches the loop only after both capabilities are registered.
C21_FixedPipelineOrder ==
  /\ CalledBefore("download_pdf_files", "keep_relevant_pages_in_pdfs")
  /\ CalledBefore("keep_relevant_pages_in_pdfs", "process_all_pdfs")
  /\ CalledBefore("process_all_pdfs", "FAISS.from_texts")
  /\ CalledBefore("FAISS.from_texts", "save_local")
  /\ CalledBefore("save_local", "load_faiss_index")
  /\ CalledBefore("load_faiss_index", "extract_entities_in_sql_db")
  /\ CalledBefore("load_faiss_index", "SQLDatabase.from_uri")
  /\ (\E j \in DOMAIN agent_log : agent_log[j] = "SQLDatabase.from_uri") =>
       /\ store_file.exists
       /\ agent_db = store_file.built_by
       /\ \/ store_at_start.exists
          \/ CalledBefore("extract_entities_in_sql_db", "SQLDatabase.from_uri")
  /\ CalledBefore("SQLDatabase.from_uri", "create_react_agent")
  /\ CalledBefore("create_react_agent", "ask")
  /\ agent_store # 0 - 1 => agent_store = run

\* C21 witness: a construction that found no store file has run every call
\* and passed the question to the loop
C21_Witness ==
  /\ agent_pc = "answered"
  /\ ~store_at_start.exists
  /\ agent_log = <<"download_pdf_files", "keep_relevant_pages_in_pdfs",
                   "process_all_pdfs", "FAISS.from_texts", "save_local",
                   "load_faiss_index", "extract_entities_in_sql_db",
                   "SQLDatabase.from_uri", "create_react_agent", "ask">>

AllDownloaded(d) ==
  \A i \in DOMAIN docs_mapping :
    docs_mapping[i].doc_url # "" =>
      d[<<docs_mapping[i].company, docs_mapping[i].year>>].exists

\* the step made a request
Requested == Len(requests') = Len(requests) + 1

\* C23: download_pdf_files is idempotent per document. The step for an
\* entry whose target file exists makes no request and leaves every file as
\* it is; the step for an entry with an empty URL makes no request and
\* writes no file; a request answered with a status other than 200 writes
\* no file, and only a request writes a file, the target of its entry;
\* and a call that follows a call after which every entry with a URL had
\* its file makes no request and leaves the same files.
C23_DownloadIdempotent ==
  /\ [][(InDownload /\ CurDoc.doc_url # "" /\ raw[CurKey].exists)
          => (raw' = raw /\ requests' = requests)]_vars
  /\ [][(InDownload /\ CurDoc.doc_url = "")
          => (raw' = raw /\ requests' = requests)]_vars
  /\ [][(Requested /\ requests'[Len(requests')].status # StatusOk)
          => raw' = raw]_vars
  /\ [][(InDownload /\ raw' # raw)
          => /\ Requested
             /\ requests'[Len(requests')] = Response(CurDoc.doc_url, StatusOk)
             /\ \A k \in Keys : k # CurKey => raw'[k] = raw[k]]_vars
  /\ [](\A r \in DOMAIN dl_files :
          (r + 1 <= dl_run /\ AllDownloaded(dl_files[r])) =>
            /\ IF r + 1 \in DOMAIN dl_files
                 THEN /\ dl_files[r + 1] = dl_files[r]
                      /\ dl_requests[r + 1] = dl_requests[r]
                 ELSE /\ raw = dl_files[r]
                      /\ Len(requests) = dl_requests[r])

\* C23 witness: the second call is over for two documents of different
\* years that the first call both downloaded: the files are those of the
\* first call and the two requests are the first call's
C23_Witness ==
  /\ dl_run = 2
  /\ prep_pc = "download"
  /\ prep_i > Len(docs_mapping)
  /\ Len(docs_mapping) = 2
  /\ docs_mapping[1].doc_url # ""
  /\ docs_mapping[2].doc_url # ""
  /\ docs_mapping[1].year # docs_mapping[2].year
  /\ dl_requests = <<2>>
  /\ Len(requests) = 2
  /\ \A i \in 1..2 : requests[i].status = StatusOk
  /\ AllDownloaded(raw)
  /\ raw = dl_files[1]

\* ------------------------------------------------------------------------
\* Specifications
\* ------------------------------------------------------------------------
InitTrim ==
  TrimInit /\ PrepIdle /\ ExtIdle /\ LoadIdle /\ AgentIdle /\ ConcIdle
  /\ CfgIdle /\ DlIdle
SpecTrim == InitTrim /\ [][TrimCall]_vars

InitPrep ==
  PrepInit /\ TrimIdle /\ ExtIdle /\ LoadIdle /\ AgentIdle /\ ConcIdle
  /\ CfgIdle /\ DlIdle
SpecPrep == InitPrep /\ [][PrepNext]_vars

InitExtract ==
  ExtInit /\ TrimIdle /\ PrepIdle /\ LoadIdle /\ AgentIdle /\ ConcIdle
  /\ CfgIdle /\ DlIdle
SpecExtract == InitExtract /\ [][ExtNext]_vars

InitLoad ==
  LoadInit /\ TrimIdle /\ PrepIdle /\ ExtIdle /\ AgentIdle /\ ConcIdle
  /\ CfgIdle /\ DlIdle
SpecLoad == InitLoad /\ [][LoadNext]_vars

InitAgent ==
  AgentInit /\ TrimIdle /\ PrepIdle /\ ExtIdle /\ LoadIdle /\ ConcIdle
  /\ CfgIdle /\ DlIdle
SpecAgent == InitAgent /\ [][AgentNext]_vars

InitConcurrent ==
  ConcInit /\ TrimIdle /\ PrepIdle /\ ExtIdle /\ LoadIdle /\ AgentIdle
  /\ CfgIdle /\ DlIdle
SpecConcurrent == InitConcurrent /\ [][ConcNext]_vars

InitCfg ==
  CfgInit /\ TrimIdle /\ PrepIdle /\ ExtIdle /\ LoadIdle /\ AgentIdle
  /\ ConcIdle /\ DlIdle
SpecCfg == InitCfg /\ [][CfgNext]_vars

InitDownload ==
  DlInit /\ TrimIdle /\ ExtIdle /\ LoadIdle /\ AgentIdle /\ ConcIdle
  /\ CfgIdle
SpecDownload == InitDownload /\ [][DownloadNext]_vars

====
